---- MODULE Spec2Model ----
(***************************************************************************)
(* Model of modules/cloud-run/cloud-init.py: the startup script that       *)
(* bootstraps a GCE VM as a one-shot GitHub Actions runner.                *)
(*                                                                         *)
(* Strings are sequences of fragments (single characters where the code    *)
(* inspects characters, longer literals elsewhere), so that formatting and *)
(* parsing are computed the way the code computes them.                    *)
(***************************************************************************)
EXTENDS Integers, Sequences, FiniteSets, TLC

\* ------------------------------------------------------------------ bounds
\* Number of times the script is executed against the same filesystem.
MaxRuns == 2
\* Longest region name, in characters.
MaxRegionLen == 3
\* Longest zone suffix, in characters.
MaxSuffixLen == 1
\* Longest project number, in characters.
MaxNumLen == 1

\* ----------------------------------------------------------------- strings
RECURSIVE SeqsUpTo(_, _)
\* All sequences over alphabet A of length 0..n.
SeqsUpTo(A, n) ==
    IF n = 0 THEN {<<>>}
    ELSE LET shorter == SeqsUpTo(A, n - 1)
         IN  shorter \cup {Append(s, a) : s \in {t \in shorter : Len(t) = n - 1}, a \in A}

Whitespace == {" ", "\n"}

RECURSIVE LStrip(_)
LStrip(s) ==
    IF s # <<>> /\ Head(s) \in Whitespace THEN LStrip(Tail(s)) ELSE s

RECURSIVE RStrip(_)
RStrip(s) ==
    IF s # <<>> /\ s[Len(s)] \in Whitespace THEN RStrip(SubSeq(s, 1, Len(s) - 1)) ELSE s

\* str.strip(): leading and trailing whitespace removed.
Strip(s) == RStrip(LStrip(s))

\* Whether sep occurs in s starting at position i.
OccursAt(s, sep, i) ==
    /\ i + Len(sep) - 1 <= Len(s)
    /\ \A j \in 1..Len(sep) : s[i + j - 1] = sep[j]

\* Position of the first occurrence of sep in s, 0 when there is none.
Find(s, sep) ==
    LET hits == {i \in 1..Len(s) : OccursAt(s, sep, i)}
    IN  IF hits = {} THEN 0 ELSE CHOOSE i \in hits : \A k \in hits : i <= k

\* Position of the last occurrence of sep in s, 0 when there is none.
RFind(s, sep) ==
    LET hits == {i \in 1..Len(s) : OccursAt(s, sep, i)}
    IN  IF hits = {} THEN 0 ELSE CHOOSE i \in hits : \A k \in hits : i >= k

\* str.partition(sep)[-1]: what follows the first sep, "" when sep is absent.
PartitionLast(s, sep) ==
    LET i == Find(s, sep)
    IN  IF i = 0 THEN <<>> ELSE SubSeq(s, i + Len(sep), Len(s))

\* str.split(sep, 1)[0]: what precedes the FIRST sep (the whole of s without one).
SplitFirstHead(s, sep) ==
    LET i == Find(s, sep)
    IN  IF i = 0 THEN s ELSE SubSeq(s, 1, i - 1)

\* str.rsplit(sep, 1)[0]: what precedes the last sep (the whole of s without one).
RSplitHead(s, sep) ==
    LET i == RFind(s, sep)
    IN  IF i = 0 THEN s ELSE SubSeq(s, 1, i - 1)

ZonesMarker == <<"/", "z", "o", "n", "e", "s", "/">>

\* The derivation with the region cut at the first hyphen instead of the last.
region_of_zone_path_first_hyphen(body) ==
    LET zone_path == Strip(body)
        zone      == PartitionLast(zone_path, ZonesMarker)
    IN  SplitFirstHead(zone, <<"-">>)

\* get_region's derivation from the response body (lines 101-106).
region_of_zone_path(body) ==
    LET zone_path == Strip(body)
        zone      == PartitionLast(zone_path, ZonesMarker)
    IN  RSplitHead(zone, <<"-">>)

\* get_project_id's value from the response body (line 83).
project_of_body(body) == Strip(body)

\* configure_docker's mirror URL (line 260).
virtual_repo_of(region, project_id) ==
    region \o <<"-docker.pkg.dev/">> \o project_id \o <<"/virtual">>


\* -------------------------------------------------------------------- JSON
\* A JSON value: t is its type, s the scalar's text, items a list's entries.
JBool(b)   == [t |-> "bool", s |-> IF b THEN "true" ELSE "false", items |-> <<>>]
JNull      == [t |-> "null", s |-> "null", items |-> <<>>]
JStr(x)    == [t |-> "str",  s |-> x, items |-> <<>>]
JList(xs)  == [t |-> "list", s |-> "", items |-> xs]
Member(k, v) == [k |-> k, v |-> v]

\* A file holding JSON text: form is "absent" (no file), "empty" (zero bytes),
\* "invalid" (not JSON), "array" (a top-level list) or "object"; members is the
\* object's members as written, in order, repeated keys included.
File(form, members) == [form |-> form, members |-> members]
AbsentFile == File("absent", <<>>)

\* A dict is a sequence of members with distinct keys, in insertion order.
DictKeys(d) == {d[i].k : i \in 1..Len(d)}
DictGet(d, k) == d[CHOOSE i \in 1..Len(d) : d[i].k = k].v
\* d[k] = v: an existing key keeps its position.
DictSet(d, k, v) ==
    IF k \in DictKeys(d)
    THEN [i \in 1..Len(d) |-> IF d[i].k = k THEN Member(k, v) ELSE d[i]]
    ELSE Append(d, Member(k, v))

RECURSIVE DictFromMembers(_, _)
\* The dict json.load builds from an object's members: the last value of a
\* repeated key wins, at the key's first position.
DictFromMembers(members, acc) ==
    IF members = <<>> THEN acc
    ELSE DictFromMembers(Tail(members), DictSet(acc, Head(members).k, Head(members).v))

\* json.load(f) (line 253): err names the exception raised, "" for none.
json_load(file) ==
    CASE file.form \in {"empty", "invalid"} ->
            [err |-> "JSONDecodeError", isdict |-> FALSE, dict |-> <<>>]
      [] file.form = "array" ->
            [err |-> "", isdict |-> FALSE, dict |-> <<>>]
      [] OTHER ->
            [err |-> "", isdict |-> TRUE, dict |-> DictFromMembers(file.members, <<>>)]

\* json.dump(daemon_config, f, indent=2) (line 268).
json_dump(dict) == File("object", dict)

\* ----------------------------------------------------------------- logging
\* A log record: text and exc are sequences of fragments; exc is <<>> when
\* the record carries no exception information.
Rec(level, text, exc) == [level |-> level, text |-> text, exc |-> exc]

LevelNo(level) ==
    CASE level = "DEBUG" -> 10
      [] level = "INFO"  -> 20
      [] level = "ERROR" -> 40

\* logging.basicConfig(level=logging.INFO, ...) (lines 329-334).
LoggerLevel == "INFO"

\* A record reaches the handler only at or above the logger's level.
Emit(lg, rec) ==
    IF LevelNo(rec.level) >= LevelNo(LoggerLevel) THEN Append(lg, rec) ELSE lg

RECURSIVE EmitAll(_, _)
EmitAll(lg, recs) ==
    IF recs = <<>> THEN lg ELSE EmitAll(Emit(lg, Head(recs)), Tail(recs))

CalledProcessError(cmd) == <<"CalledProcessError: Command '", cmd, "' returned non-zero exit status">>
OSErrorAt(kind, path)   == <<kind, ": ", path>>
URLError(url)           == <<"URLError: ", url>>


\* ------------------------------------------------------- configure_docker
MirrorsKey == "registry-mirrors"
Ipv6Key    == "ipv6"

\* What the environment can make fail inside configure_docker.
DockerFaults ==
    {"none", "tmp_mkdir", "credential_helper", "etc_mkdir_perm", "etc_mkdir_os",
     "open_write", "write_io"}

Did(act, ok) == [act |-> act, ok |-> ok]

\* The merge done on a fresh dict instead of the loaded one.
merge_mirror_fresh(dict, virtual_repo) ==
    [err |-> "",
     dict |-> <<Member(MirrorsKey, JList(<<virtual_repo>>)), Member(Ipv6Key, JBool(TRUE))>>]

\* daemon_config.setdefault("registry-mirrors", []).append(virtual_repo)
\* followed by daemon_config["ipv6"] = True (lines 261-264), on a loaded
\* dict. err is "AttributeError" when the stored value has no append.
merge_mirror(dict, virtual_repo) ==
    LET had     == MirrorsKey \in DictKeys(dict)
        current == IF had THEN DictGet(dict, MirrorsKey) ELSE JList(<<>>)
    IN  IF current.t # "list"
        THEN [err |-> "AttributeError", dict |-> dict]
        ELSE [err |-> "",
              dict |-> DictSet(DictSet(dict, MirrorsKey,
                                       JList(Append(current.items, virtual_repo))),
                               Ipv6Key, JBool(TRUE))]

\* The rewrite with the file opened for writing (and so truncated) before it
\* is loaded.
rewrite_daemon_json_truncate_first(file, virtual_repo, fault) ==
    LET truncated == File("empty", <<>>)
        loaded    == IF file.form # "absent" THEN json_load(file)
                     ELSE [err |-> "", isdict |-> TRUE, dict |-> <<>>]
        merged    == merge_mirror(loaded.dict, virtual_repo)
        good      == loaded.err = "" /\ loaded.isdict /\ merged.err = ""
                     /\ fault \notin {"open_write", "write_io"}
    IN  [ok |-> good,
         file |-> IF good THEN json_dump(merged.dict) ELSE truncated,
         recs |-> <<>>,
         wrote |-> good \/ fault \in {"open_write", "write_io"},
         exc |-> IF good THEN <<>> ELSE <<"Exception">>]

\* Lines 250-268: load or default, merge, write.  fault is "open_write" when
\* opening the file for writing fails (the file is untouched), "write_io" when
\* the write fails after the file was opened and truncated.
rewrite_daemon_json(file, virtual_repo, fault) ==
    LET existed == file.form # "absent"
        loaded  == IF existed THEN json_load(file)
                   ELSE [err |-> "", isdict |-> TRUE, dict |-> <<>>]
        loadlog == IF existed
                   THEN <<Rec("INFO", <<"Loaded existing daemon.json configuration">>, <<>>)>>
                   ELSE <<Rec("INFO", <<"Creating new daemon.json configuration...">>, <<>>)>>
        merged  == merge_mirror(loaded.dict, virtual_repo)
    IN  CASE loaded.err # "" ->
                [ok |-> FALSE, file |-> file, recs |-> <<>>, wrote |-> FALSE,
                 exc |-> <<loaded.err>>]
          [] ~loaded.isdict ->
                [ok |-> FALSE, file |-> file, recs |-> loadlog, wrote |-> FALSE,
                 exc |-> <<"AttributeError: 'list' object has no attribute 'setdefault'">>]
          [] merged.err # "" ->
                [ok |-> FALSE, file |-> file, recs |-> loadlog, wrote |-> FALSE,
                 exc |-> <<"AttributeError: object has no attribute 'append'">>]
          [] fault = "open_write" ->
                [ok |-> FALSE, file |-> file, recs |-> loadlog, wrote |-> TRUE,
                 exc |-> OSErrorAt("OSError", "/etc/docker/daemon.json")]
          [] fault = "write_io" ->
                [ok |-> FALSE, file |-> File("empty", <<>>), recs |-> loadlog,
                 wrote |-> TRUE, exc |-> OSErrorAt("OSError", "/etc/docker/daemon.json")]
          [] OTHER ->
                [ok |-> TRUE, file |-> json_dump(merged.dict), recs |-> loadlog,
                 wrote |-> TRUE, exc |-> <<>>]

\* configure_docker(region, project_id) (lines 222-272) run against `file`
\* under the environment's `fault`: ok, the returned mirror URL, the file
\* afterwards, the records logged, the exception raised and the external
\* actions performed, in order.
configure_docker(region, project_id, file, fault) ==
    LET virtual_repo == virtual_repo_of(region, project_id)
        rw == rewrite_daemon_json(file, virtual_repo, fault)
        failed(acts, recs, exc) ==
            [ok |-> FALSE, ret |-> <<>>, file |-> file, recs |-> recs, exc |-> exc,
             acts |-> acts]
    IN  CASE fault = "tmp_mkdir" ->
                failed(<<Did("mkdir_docker_config", FALSE)>>, <<>>,
                       OSErrorAt("OSError", "/tmp/.docker/"))
          [] fault = "credential_helper" ->
                failed(<<Did("mkdir_docker_config", TRUE), Did("credential_helper", FALSE)>>,
                       <<>>, CalledProcessError("docker-credential-gcr configure-docker"))
          [] fault = "etc_mkdir_perm" ->
                failed(<<Did("mkdir_docker_config", TRUE), Did("credential_helper", TRUE),
                         Did("mkdir_etc_docker", FALSE)>>,
                       <<Rec("ERROR", <<"Permission denied creating /etc/docker directory">>,
                             OSErrorAt("PermissionError", "/etc/docker"))>>,
                       OSErrorAt("PermissionError", "/etc/docker"))
          [] fault = "etc_mkdir_os" ->
                failed(<<Did("mkdir_docker_config", TRUE), Did("credential_helper", TRUE),
                         Did("mkdir_etc_docker", FALSE)>>,
                       <<>>, OSErrorAt("OSError", "/etc/docker"))
          [] OTHER ->
                LET before == <<Did("mkdir_docker_config", TRUE), Did("credential_helper", TRUE),
                                Did("mkdir_etc_docker", TRUE)>>
                    recs0  == <<Rec("DEBUG", <<"Created Docker directory: ", "/etc/docker">>, <<>>)>>
                IN  [ok   |-> rw.ok,
                     ret  |-> IF rw.ok THEN virtual_repo ELSE <<>>,
                     file |-> rw.file,
                     recs |-> recs0 \o rw.recs \o
                              (IF rw.ok
                               THEN <<Rec("INFO",
                                          <<"Successfully configured Docker registry mirror: ">>
                                              \o virtual_repo, <<>>)>>
                               ELSE <<>>),
                     exc  |-> rw.exc,
                     acts |-> before \o
                              (IF rw.wrote THEN <<Did("write_daemon_json", rw.ok)>> ELSE <<>>)]


\* ------------------------------------------------------ write_systemd_unit
UnitPath == "/etc/systemd/system/gha-runner.service"

\* Lines 286-297.
docker_run_line(virtual_repo, jit) ==
    LET image == virtual_repo \o <<"/actions/actions-runner:latest">>
    IN  <<"/usr/bin/docker run --name gha-runner --log-driver=gcplogs ... --volume /var/lib/github:/runner/_work ">>
        \o image \o <<" ./run.sh --jitconfig ">> \o <<jit>>

\* Lines 299-320.
unit_contents(virtual_repo, jit) ==
    <<"[Unit] ... [Service] Type=exec Environment=DOCKER_CONFIG=/tmp/.docker ExecStart=">>
    \o docker_run_line(virtual_repo, jit)
    \o <<"\nExecStopPost=/usr/bin/systemctl poweroff\nRemainAfterExit=yes\n[Install]\nWantedBy=multi-user.target\n">>

\* The record with the rendered command line in it.
unit_written_record_contents(virtual_repo, jit) ==
    Rec("INFO", <<"Wrote systemd unit: ", UnitPath, " ExecStart=">>
                    \o docker_run_line(virtual_repo, jit), <<>>)

\* The record logged after the unit file is written (line 323).
unit_written_record(virtual_repo, jit) ==
    Rec("INFO", <<"Wrote systemd unit: ", UnitPath>>, <<>>)

\* write_systemd_unit(virtual_repo) (lines 275-324) with the token the
\* metadata server answers (get_jitconfig returns the body as it is,
\* unstripped, line 121) and the environment's fault ("none",
\* "fetch_jit" or "write_unit").  unit is the unit file afterwards.
write_systemd_unit(virtual_repo, jit, old_unit, fault) ==
    CASE fault = "fetch_jit" ->
            [ok |-> FALSE, unit |-> old_unit, recs |-> <<>>,
             exc |-> URLError("computeMetadata/v1/instance/attributes/JIT_CONFIG"),
             acts |-> <<Did("fetch_jit", FALSE)>>]
      [] fault = "write_unit" ->
            [ok |-> FALSE, unit |-> old_unit, recs |-> <<>>,
             exc |-> OSErrorAt("OSError", UnitPath),
             acts |-> <<Did("fetch_jit", TRUE), Did("write_unit", FALSE)>>]
      [] OTHER ->
            [ok |-> TRUE, unit |-> unit_contents(virtual_repo, jit),
             recs |-> <<unit_written_record(virtual_repo, jit)>>,
             exc |-> <<>>,
             acts |-> <<Did("fetch_jit", TRUE), Did("write_unit", TRUE)>>]

\* -------------------------------------------------------------------- main
\* The order with the zone fetched only after the engine was configured.
NextStage_zone_late(stage) ==
    CASE stage = "configure_runner_dirs" -> "get_project_id"
      [] stage = "get_project_id"        -> "configure_docker"
      [] stage = "configure_docker"      -> "get_region"
      [] stage = "get_region"            -> "chmod_sock"
      [] stage = "chmod_sock"            -> "reload_docker"
      [] stage = "reload_docker"         -> "write_systemd_unit"
      [] stage = "write_systemd_unit"    -> "daemon_reload"
      [] stage = "daemon_reload"         -> "enable_now"
      [] stage = "enable_now"            -> "exited"

\* The order of main's stages (lines 186-219); "exited" after the last.
NextStage(stage) ==
    CASE stage = "configure_runner_dirs" -> "get_project_id"
      [] stage = "get_project_id"        -> "get_region"
      [] stage = "get_region"            -> "configure_docker"
      [] stage = "configure_docker"      -> "chmod_sock"
      [] stage = "chmod_sock"            -> "reload_docker"
      [] stage = "reload_docker"         -> "write_systemd_unit"
      [] stage = "write_systemd_unit"    -> "daemon_reload"
      [] stage = "daemon_reload"         -> "enable_now"
      [] stage = "enable_now"            -> "exited"

\* The stages main runs inside a try block (lines 194, 204, 212).
Caught(stage) ==
    stage \in {"configure_docker", "reload_docker", "write_systemd_unit",
               "daemon_reload", "enable_now"}

\* One message for every handler.
ErrorMessage_generic(stage) == "Error during runner setup"

\* The message of the handler's logger.error (lines 197, 208, 218).
ErrorMessage(stage) ==
    CASE stage = "configure_docker" -> "Error configuring Docker registry mirrors"
      [] stage = "reload_docker"    -> "Error reloading Docker"
      [] stage \in {"write_systemd_unit", "daemon_reload", "enable_now"}
                                    -> "Failed to start gha-runner via systemd"
      [] OTHER                      -> ""

\* The reload handler without its sys.exit: the error is logged and main goes on.
OnError_reload_continues(stage) ==
    IF stage = "reload_docker" THEN NextStage(stage) ELSE "exited"

\* Where control goes when a stage raises: the handler's sys.exit, or the
\* interpreter ending on the uncaught exception.
OnError(stage) == "exited"

\* The unit handler calling sys.exit() with no status, which exits with 0.
ErrorStatus_bare_exit(stage) ==
    IF stage \in {"write_systemd_unit", "daemon_reload", "enable_now"} THEN 0 ELSE 1

\* The exit status then: sys.exit(1) (lines 198, 209, 219), and 1 from the
\* interpreter for an uncaught exception.
ErrorStatus(stage) == 1


\* ------------------------------------------------------------------- state
VARIABLES
    vm,            \* what the metadata server serves: project, region, JIT_CONFIG
    daemon_json,   \* /etc/docker/daemon.json
    unit_file,     \* /etc/systemd/system/gha-runner.service, <<>> when absent
    host,          \* the other effects on the machine
    pc,            \* the stage main() is about to run, "exited" after the process ended
    exit_code,     \* the process's exit status, read when pc = "exited"
    run,           \* how many times the script has been started
    trace,         \* the external actions of this run, in order, each with its outcome
    log,           \* the records this run's handler emitted
    stderr,        \* the uncaught exception's traceback, <<>> without one
    raised,        \* the stage of main whose call raised, "" while none has
    project_id,    \* main's local
    region,        \* main's local
    virtual_repo   \* main's local

vars == <<vm, daemon_json, unit_file, host, pc, exit_code, run, trace, log, stderr,
          raised, project_id, region, virtual_repo>>

Projects       == {<<"p", "1">>, <<"q", "-", "2">>}
RegionAlphabet == {"u", "-"}
Regions        == SeqsUpTo(RegionAlphabet, MaxRegionLen)
Suffixes       == SeqsUpTo({"a"}, MaxSuffixLen)
Nums           == SeqsUpTo({"7"}, MaxNumLen) \ {<<>>}
JitTokens      == {"TOKEN-A", "TOKEN-B\n"}
OtherMirror    == <<"mirror.gcr.io">>

\* The zone path of the metadata server's answer: projects/<N>/zones/<region>-<suffix>.
ZonePath(num, reg, suffix) ==
    <<"p", "r", "o", "j", "e", "c", "t", "s", "/">> \o num \o ZonesMarker
        \o reg \o <<"-">> \o suffix

\* A response body, with or without a trailing newline.
Body(text, nl) == IF nl THEN text \o <<"\n">> ELSE text

\* The contents daemon.json may have before the first run.
InitialDaemonJson ==
    { AbsentFile,
      File("empty", <<>>),
      File("invalid", <<>>),
      File("array", <<>>),
      File("object", <<>>),
      File("object", <<Member("debug", JBool(TRUE))>>),
      File("object", <<Member(MirrorsKey, JList(<<OtherMirror>>)), Member("debug", JBool(TRUE))>>),
      File("object", <<Member(Ipv6Key, JBool(FALSE)), Member("debug", JBool(TRUE)),
                       Member("debug", JBool(FALSE))>>),
      File("object", <<Member(MirrorsKey, JStr("mirror.gcr.io"))>>),
      File("object", <<Member(MirrorsKey, JNull)>>) }

FreshHost ==
    [work_dir |-> FALSE, mounted |-> FALSE, docker_config_dir |-> FALSE,
     cred_helper |-> FALSE, etc_docker_dir |-> FALSE, sock_rw |-> FALSE,
     docker_reloaded |-> FALSE, units_reloaded |-> FALSE, runner_enabled |-> FALSE]

Init ==
    /\ vm \in [project : Projects, region : Regions, jit : JitTokens]
    /\ daemon_json \in InitialDaemonJson
    /\ unit_file = <<>>
    /\ host = [FreshHost EXCEPT !.etc_docker_dir = (daemon_json.form # "absent")]
    /\ pc = "configure_runner_dirs"
    /\ exit_code = 0
    /\ run = 1
    /\ trace = <<>>
    /\ log = <<>>
    /\ stderr = <<>>
    /\ raised = ""
    /\ project_id = <<>>
    /\ region = <<>>
    /\ virtual_repo = <<>>

\* The names of the actions of `acts` that succeeded.
Succeeded(acts) == {acts[i].act : i \in {j \in 1..Len(acts) : acts[j].ok}}

\* A stage of main completed: control moves on; falling off the end of main
\* ends the process with status 0.
Ok(stage, lg, acts) ==
    /\ pc' = NextStage(stage)
    /\ exit_code' = IF NextStage(stage) = "exited" THEN 0 ELSE exit_code
    /\ log' = lg
    /\ trace' = trace \o acts
    /\ stderr' = stderr
    /\ raised' = raised

\* A stage of main raised exc: a stage inside a try block logs the error with
\* the exception attached and exits; elsewhere the exception is uncaught.
Fail(stage, exc, lg, acts) ==
    /\ pc' = OnError(stage)
    /\ exit_code' = IF OnError(stage) = "exited" THEN ErrorStatus(stage) ELSE exit_code
    /\ log' = IF Caught(stage)
              THEN Emit(lg, Rec("ERROR", <<ErrorMessage(stage)>>, exc))
              ELSE lg
    /\ trace' = trace \o acts
    /\ stderr' = IF Caught(stage) THEN stderr ELSE exc
    /\ raised' = stage

\* Lines 187-188 and configure_runner_dirs (lines 150-183).
main_configure_runner_dirs ==
    /\ pc = "configure_runner_dirs"
    /\ \E fault \in {"none", "install", "mount"} :
        LET lg == Emit(log, Rec("INFO", <<"Starting GitHub Actions runner setup...">>, <<>>))
        IN  /\ host' = [host EXCEPT !.work_dir = @ \/ fault # "install",
                                    !.mounted  = @ \/ fault = "none"]
            /\ CASE fault = "install" ->
                       Fail("configure_runner_dirs", CalledProcessError("install --directory"),
                            lg, <<Did("install_dir", FALSE)>>)
                 [] fault = "mount" ->
                       Fail("configure_runner_dirs", CalledProcessError("mount --bind"),
                            lg, <<Did("install_dir", TRUE), Did("mount_bind", FALSE)>>)
                 [] OTHER ->
                       Ok("configure_runner_dirs", lg,
                          <<Did("install_dir", TRUE), Did("mount_bind", TRUE)>>)
    /\ UNCHANGED <<vm, daemon_json, unit_file, run, project_id, region, virtual_repo>>

\* Line 190 and get_project_id (lines 74-85).
main_get_project_id ==
    /\ pc = "get_project_id"
    /\ \E ok \in BOOLEAN, nl \in BOOLEAN :
        LET value == project_of_body(Body(vm.project, nl))
        IN  IF ok
            THEN /\ project_id' = value
                 /\ Ok("get_project_id",
                       Emit(log, Rec("DEBUG", <<"Retrieved project ID: ">> \o value, <<>>)),
                       <<Did("fetch_project", TRUE)>>)
            ELSE /\ project_id' = project_id
                 /\ Fail("get_project_id", URLError("computeMetadata/v1/project/project-id"),
                         log, <<Did("fetch_project", FALSE)>>)
    /\ UNCHANGED <<vm, daemon_json, unit_file, host, run, region, virtual_repo>>

\* Line 191 and get_region (lines 88-106).
main_get_region ==
    /\ pc = "get_region"
    /\ \E ok \in BOOLEAN, nl \in BOOLEAN, num \in Nums, suffix \in Suffixes :
        LET body == Body(ZonePath(num, vm.region, suffix), nl)
        IN  IF ok
            THEN /\ region' = region_of_zone_path(body)
                 /\ Ok("get_region",
                       Emit(log, Rec("DEBUG", <<"Retrieved zone path: ">> \o Strip(body), <<>>)),
                       <<Did("fetch_zone", TRUE)>>)
            ELSE /\ region' = region
                 /\ Fail("get_region", URLError("computeMetadata/v1/instance/zone"),
                         log, <<Did("fetch_zone", FALSE)>>)
    /\ UNCHANGED <<vm, daemon_json, unit_file, host, run, project_id, virtual_repo>>

\* Lines 193-198.
main_configure_docker ==
    /\ pc = "configure_docker"
    /\ \E fault \in DockerFaults :
        LET r    == configure_docker(region, project_id, daemon_json, fault)
            done == Succeeded(r.acts)
            lg   == EmitAll(Emit(log, Rec("INFO", <<"Configuring Docker registry mirrors...">>, <<>>)),
                            r.recs)
        IN  /\ daemon_json' = r.file
            /\ host' = [host EXCEPT !.docker_config_dir = @ \/ "mkdir_docker_config" \in done,
                                    !.cred_helper       = @ \/ "credential_helper" \in done,
                                    !.etc_docker_dir    = @ \/ "mkdir_etc_docker" \in done]
            /\ IF r.ok
               THEN /\ virtual_repo' = r.ret
                    /\ Ok("configure_docker", lg, r.acts)
               ELSE /\ virtual_repo' = virtual_repo
                    /\ Fail("configure_docker", r.exc, lg, r.acts)
    /\ UNCHANGED <<vm, unit_file, run, project_id, region>>

\* Line 201.
main_chmod_sock ==
    /\ pc = "chmod_sock"
    /\ \E ok \in BOOLEAN :
        /\ host' = [host EXCEPT !.sock_rw = @ \/ ok]
        /\ IF ok
           THEN Ok("chmod_sock", log, <<Did("chmod_sock", TRUE)>>)
           ELSE Fail("chmod_sock", CalledProcessError("chmod a=rw /var/run/docker.sock"),
                     log, <<Did("chmod_sock", FALSE)>>)
    /\ UNCHANGED <<vm, daemon_json, unit_file, run, project_id, region, virtual_repo>>

\* Lines 203-209.
main_reload_docker ==
    /\ pc = "reload_docker"
    /\ \E ok \in BOOLEAN :
        LET lg == Emit(log, Rec("INFO", <<"Reloading docker configuration...">>, <<>>))
        IN  /\ host' = [host EXCEPT !.docker_reloaded = @ \/ ok]
            /\ IF ok
               THEN Ok("reload_docker",
                       Emit(lg, Rec("INFO", <<"Docker configuration reloaded successfully">>, <<>>)),
                       <<Did("reload_docker", TRUE)>>)
               ELSE Fail("reload_docker", CalledProcessError("systemctl reload docker"),
                         lg, <<Did("reload_docker", FALSE)>>)
    /\ UNCHANGED <<vm, daemon_json, unit_file, run, project_id, region, virtual_repo>>

\* Lines 211-213 (and the handler, lines 217-219).
main_write_systemd_unit ==
    /\ pc = "write_systemd_unit"
    /\ \E fault \in {"none", "fetch_jit", "write_unit"} :
        LET r  == write_systemd_unit(virtual_repo, vm.jit, unit_file, fault)
            lg == EmitAll(Emit(log, Rec("INFO",
                      <<"Runner setup complete, creating systemd unit and starting runner...">>,
                      <<>>)), r.recs)
        IN  /\ unit_file' = r.unit
            /\ IF r.ok
               THEN Ok("write_systemd_unit", lg, r.acts)
               ELSE Fail("write_systemd_unit", r.exc, lg, r.acts)
    /\ UNCHANGED <<vm, daemon_json, host, run, project_id, region, virtual_repo>>

\* Line 214 (and the handler, lines 217-219).
main_daemon_reload ==
    /\ pc = "daemon_reload"
    /\ \E ok \in BOOLEAN :
        /\ host' = [host EXCEPT !.units_reloaded = @ \/ ok]
        /\ IF ok
           THEN Ok("daemon_reload", log, <<Did("daemon_reload", TRUE)>>)
           ELSE Fail("daemon_reload", CalledProcessError("systemctl daemon-reload"),
                     log, <<Did("daemon_reload", FALSE)>>)
    /\ UNCHANGED <<vm, daemon_json, unit_file, run, project_id, region, virtual_repo>>

\* Lines 215-216 (and the handler, lines 217-219).
main_enable_now ==
    /\ pc = "enable_now"
    /\ \E ok \in BOOLEAN :
        /\ host' = [host EXCEPT !.runner_enabled = @ \/ ok]
        /\ IF ok
           THEN Ok("enable_now",
                   Emit(log, Rec("INFO", <<"gha-runner.service enabled and started">>, <<>>)),
                   <<Did("enable_now", TRUE)>>)
           ELSE Fail("enable_now", CalledProcessError("systemctl enable --now gha-runner.service"),
                     log, <<Did("enable_now", FALSE)>>)
    /\ UNCHANGED <<vm, daemon_json, unit_file, run, project_id, region, virtual_repo>>

\* The script is started again on the same machine (lines 327-340): a new
\* process, with the files the earlier run left.
Rerun ==
    /\ pc = "exited"
    /\ run < MaxRuns
    /\ run' = run + 1
    /\ pc' = "configure_runner_dirs"
    /\ exit_code' = 0
    /\ trace' = <<>>
    /\ log' = <<>>
    /\ stderr' = <<>>
    /\ raised' = ""
    /\ project_id' = <<>>
    /\ region' = <<>>
    /\ virtual_repo' = <<>>
    /\ UNCHANGED <<vm, daemon_json, unit_file, host>>

Next ==
    \/ main_configure_runner_dirs
    \/ main_get_project_id
    \/ main_get_region
    \/ main_configure_docker
    \/ main_chmod_sock
    \/ main_reload_docker
    \/ main_write_systemd_unit
    \/ main_daemon_reload
    \/ main_enable_now
    \/ Rerun

Spec == Init /\ [][Next]_vars


\* ------------------------------------------------------------- properties
Acts(t) == {t[i].act : i \in 1..Len(t)}

\* The externally visible actions of a run, in the order main performs them.
VisibleOrder ==
    <<"install_dir", "mount_bind", "fetch_project", "fetch_zone", "write_daemon_json",
      "chmod_sock", "reload_docker", "fetch_jit", "write_unit", "daemon_reload",
      "enable_now">>

IsVisible(e) == \E i \in 1..Len(VisibleOrder) : VisibleOrder[i] = e.act

LastAct == IF trace = <<>> THEN Did("", TRUE) ELSE trace[Len(trace)]

\* C1: in every run the visible actions performed so far are a prefix of
\* VisibleOrder (so each is performed at most once and in that order), every
\* action but the last one performed has succeeded, nothing is performed
\* after a stage has raised, and the unit is enabled only after daemon.json
\* was written, the engine reloaded and the unit file written in that run.
C1_FixedSequence ==
    LET seen == SelectSeq(trace, IsVisible)
    IN  /\ Len(seen) <= Len(VisibleOrder)
        /\ \A i \in 1..Len(seen) : seen[i].act = VisibleOrder[i]
        /\ \A i \in 1..(Len(trace) - 1) : trace[i].ok
        /\ raised # "" => pc = "exited"
        /\ "enable_now" \in Acts(trace) =>
               {"write_daemon_json", "reload_docker", "write_unit"} \subseteq Succeeded(trace)

\* A run that got as far as starting the unit.
C1_Witness ==
    /\ pc = "exited"
    /\ run = 2
    /\ LastAct = Did("enable_now", TRUE)

\* C3: the process exits with status 0 exactly when no stage raised and the
\* unit was enabled and started, and with status 1 otherwise, in particular
\* when engine configuration, engine reload or unit installation failed.
C3_ExitStatus ==
    pc = "exited" =>
        /\ exit_code \in {0, 1}
        /\ exit_code = 0 <=> (raised = "" /\ LastAct = Did("enable_now", TRUE)
                               /\ \A i \in 1..Len(trace) : trace[i].ok)
        /\ raised # "" => exit_code = 1

\* A run ended by a failed unit activation.
C3_Witness ==
    /\ pc = "exited"
    /\ raised = "enable_now"
    /\ exit_code = 1

\* C8: once the zone was fetched, the derived region is the <region> of the
\* zone path projects/<N>/zones/<region>-<suffix> the server answered.
C8_RegionDerived ==
    "fetch_zone" \in Succeeded(trace) => region = vm.region

\* The region of a zone path whose region has a hyphen inside.
C8_Witness ==
    /\ "fetch_zone" \in Succeeded(trace)
    /\ region = <<"u", "-", "u">>


FailedFetches == {Did("fetch_project", FALSE), Did("fetch_zone", FALSE), Did("fetch_jit", FALSE)}

\* The run was ended by a failed metadata fetch.
MetadataAbort == pc = "exited" /\ LastAct \in FailedFetches

Count(t, act) == Cardinality({i \in 1..Len(t) : t[i].act = act})

\* C2 as stated: when a metadata fetch ends the run, nothing has been mutated
\* in that run: no directory created or mounted, daemon.json and the unit
\* file not written.
C2_NoMutationBeforeAbort ==
    MetadataAbort =>
        Acts(trace) \cap {"install_dir", "mount_bind", "write_daemon_json", "write_unit"} = {}

\* C2 as the code has it: a failed metadata fetch is attempted once, changes
\* no file and nothing else on the machine, and ends the process with status
\* 1; the unit file has not been written in that run; the work directory has
\* been created and mounted; daemon.json has not been written when the
\* project id or the zone could not be fetched, and has been written when
\* the JIT token could not.
C2_FetchFailureIsFatal ==
    [][ (trace' # trace /\ trace' # <<>> /\ trace'[Len(trace')] \in FailedFetches) =>
            LET failed == trace'[Len(trace')].act
            IN  /\ pc' = "exited"
                /\ exit_code' = 1
                /\ <<daemon_json', unit_file', host'>> = <<daemon_json, unit_file, host>>
                /\ Count(trace', failed) = 1
                /\ "write_unit" \notin Acts(trace')
                /\ {"install_dir", "mount_bind"} \subseteq Succeeded(trace')
                /\ failed \in {"fetch_project", "fetch_zone"} =>
                       "write_daemon_json" \notin Acts(trace')
                /\ failed = "fetch_jit" => "write_daemon_json" \in Succeeded(trace')
      ]_vars

\* The JIT token could not be fetched: daemon.json is already rewritten.
C2_Witness ==
    /\ pc = "exited"
    /\ LastAct = Did("fetch_jit", FALSE)
    /\ "write_daemon_json" \in Succeeded(trace)
    /\ unit_file = <<>>


\* ---- reading a file's members directly, as another reader of the file would
HasKey(members, k) == \E i \in 1..Len(members) : members[i].k = k
\* The value of the last member written under key k.
LastValue(members, k) ==
    members[CHOOSE i \in 1..Len(members) :
                /\ members[i].k = k
                /\ \A j \in (i + 1)..Len(members) : members[j].k # k].v
MembersOf(file) == IF file.form = "object" THEN file.members ELSE <<>>
\* The mirror list a file holds, <<>> when it holds none.
MirrorList(file) ==
    IF HasKey(MembersOf(file), MirrorsKey) /\ LastValue(MembersOf(file), MirrorsKey).t = "list"
    THEN LastValue(MembersOf(file), MirrorsKey).items
    ELSE <<>>
Occurrences(s, x) == Cardinality({i \in 1..Len(s) : s[i] = x})

\* The mirror URL of this VM.
ComputedMirror == virtual_repo_of(vm.region, vm.project)

\* C4: whatever number of runs configure_docker made against the file, the
\* mirror list holds the computed mirror URL at most once, and holds it once
\* a run has written the file.
C4_NoDuplicateMirror ==
    /\ Occurrences(MirrorList(daemon_json), ComputedMirror) <= 1
    /\ "write_daemon_json" \in Succeeded(trace) =>
           Occurrences(MirrorList(daemon_json), ComputedMirror) >= 1

\* This step of configure_docker met no failing command, directory creation
\* or write.
NoFaultInStep ==
    /\ {"mkdir_docker_config", "credential_helper", "mkdir_etc_docker"} \subseteq Succeeded(trace')
    /\ Did("write_daemon_json", FALSE) \notin {trace'[i] : i \in 1..Len(trace')}

\* What C5 promises of a run: success, a file with exactly the one mirror
\* and ipv6 true, and the mirror URL returned.
OneMirrorWritten ==
    LET url == virtual_repo_of(region, project_id)
    IN  /\ pc' = "chmod_sock"
        /\ daemon_json'.form = "object"
        /\ HasKey(daemon_json'.members, MirrorsKey)
        /\ LastValue(daemon_json'.members, MirrorsKey) = JList(<<url>>)
        /\ HasKey(daemon_json'.members, Ipv6Key)
        /\ LastValue(daemon_json'.members, Ipv6Key) = JBool(TRUE)
        /\ virtual_repo' = url
        /\ url = region \o <<"-docker.pkg.dev/">> \o project_id \o <<"/virtual">>

\* C5 as stated: with daemon.json empty (zero bytes) or absent, a run of
\* configure_docker that meets no failing command succeeds and leaves
\* exactly one mirror, ipv6 true, and returns the mirror URL.
C5_EmptyOrAbsent ==
    [][ (pc = "configure_docker" /\ daemon_json.form \in {"absent", "empty"} /\ NoFaultInStep)
            => OneMirrorWritten ]_vars

\* C5 where it holds: daemon.json absent, or holding the empty object {}.
C5_AbsentOrEmptyObject ==
    [][ (pc = "configure_docker" /\ NoFaultInStep
         /\ (daemon_json.form = "absent" \/ daemon_json = File("object", <<>>)))
            => OneMirrorWritten ]_vars

\* C6: a successful run of configure_docker keeps every key other than
\* registry-mirrors and ipv6, with its value, adds no other key, and leaves
\* the mirror list as the old entries, in order, followed by the new one.
C6_Frame ==
    [][ (pc = "configure_docker" /\ pc' = "chmod_sock" /\ raised' = "") =>
            LET old  == MembersOf(daemon_json)
                new  == daemon_json'.members
                keys(m) == {m[i].k : i \in 1..Len(m)}
            IN  /\ daemon_json'.form = "object"
                /\ \A k \in keys(old) \ {MirrorsKey, Ipv6Key} :
                       HasKey(new, k) /\ LastValue(new, k) = LastValue(old, k)
                /\ keys(new) \subseteq keys(old) \cup {MirrorsKey, Ipv6Key}
                /\ HasKey(new, MirrorsKey)
                /\ LastValue(new, MirrorsKey) =
                       JList(MirrorList(daemon_json) \o <<virtual_repo'>>)
      ]_vars

\* A rewritten file that had another key and another mirror.
C6_Witness ==
    /\ pc = "chmod_sock"
    /\ HasKey(MembersOf(daemon_json), "debug")
    /\ Len(MirrorList(daemon_json)) = 2
    /\ MirrorList(daemon_json)[1] = OtherMirror

NoToken(s) == \A i \in 1..Len(s) : s[i] \notin JitTokens

\* C7: no record the handler emitted, and no traceback, holds the JIT token,
\* whatever stage failed; the token is in no mirror entry of daemon.json; and
\* a written unit file holds it exactly once, unchanged, right after
\* --jitconfig.
C7_TokenOnlyInUnit ==
    /\ \A i \in 1..Len(log) : NoToken(log[i].text) /\ NoToken(log[i].exc)
    /\ NoToken(stderr)
    /\ \A i \in 1..Len(MirrorList(daemon_json)) : NoToken(MirrorList(daemon_json)[i])
    /\ unit_file # <<>> =>
           /\ \E i \in 1..(Len(unit_file) - 1) :
                  unit_file[i] = " ./run.sh --jitconfig " /\ unit_file[i + 1] = vm.jit
           /\ Cardinality({i \in 1..Len(unit_file) : unit_file[i] \in JitTokens}) = 1

\* The token was fetched, writing the unit failed, and the failure was
\* logged with the exception attached.
C7_Witness ==
    /\ pc = "exited"
    /\ Did("fetch_jit", TRUE) \in {trace[i] : i \in 1..Len(trace)}
    /\ LastAct = Did("write_unit", FALSE)
    /\ log # <<>>
    /\ log[Len(log)].level = "ERROR"
    /\ log[Len(log)].exc # <<>>

\* The stages main wraps in try/except, and the message that names each.
TryStages ==
    {"configure_docker", "reload_docker", "write_systemd_unit", "daemon_reload", "enable_now"}

Attribution(stage) ==
    CASE stage = "configure_docker" -> "Error configuring Docker registry mirrors"
      [] stage = "reload_docker"    -> "Error reloading Docker"
      [] OTHER                      -> "Failed to start gha-runner via systemd"

\* C9 as stated: whatever step failed, the process exits non-zero and an
\* error has been logged.
C9_EveryStepLogsError ==
    (pc = "exited" /\ raised # "") =>
        /\ exit_code # 0
        /\ \E i \in 1..Len(log) : log[i].level = "ERROR"

\* C9 as the code has it: whatever step failed, the process exits with
\* status 1; a failure of engine configuration, engine reload or unit
\* installation ends with an ERROR record that names the stage and carries
\* the exception; a failure of directory provisioning, of a metadata fetch or
\* of the socket chmod is an uncaught exception: a traceback, and no ERROR
\* record.
C9_FatalOnError ==
    (pc = "exited" /\ raised # "") =>
        /\ exit_code = 1
        /\ raised \in TryStages =>
               /\ log # <<>>
               /\ log[Len(log)].level = "ERROR"
               /\ log[Len(log)].text = <<Attribution(raised)>>
               /\ log[Len(log)].exc # <<>>
               /\ stderr = <<>>
        /\ raised \notin TryStages =>
               /\ \A i \in 1..Len(log) : log[i].level # "ERROR"
               /\ stderr # <<>>

\* The project id could not be fetched.
C9_Witness ==
    /\ pc = "exited"
    /\ raised = "get_project_id"
    /\ stderr # <<>>

LaterActs ==
    {"chmod_sock", "reload_docker", "fetch_jit", "write_unit", "daemon_reload", "enable_now"}

\* C10: when configure_docker raises before its write step, daemon.json and
\* the unit file are as they were, the process has exited with status 1, and
\* no later action is performed in that run.
C10_FailBeforeWrite ==
    /\ [][ (pc = "configure_docker" /\ raised' = "configure_docker"
            /\ "write_daemon_json" \notin Acts(trace')) =>
               /\ daemon_json' = daemon_json
               /\ unit_file' = unit_file
               /\ pc' = "exited"
               /\ exit_code' = 1 ]_vars
    /\ [](raised = "configure_docker" =>
               /\ pc = "exited"
               /\ Acts(trace) \cap LaterActs = {})

\* configure_docker failed on a daemon.json that is not JSON.
C10_Witness ==
    /\ pc = "exited"
    /\ raised = "configure_docker"
    /\ daemon_json.form = "invalid"
    /\ "write_daemon_json" \notin Acts(trace)
    /\ exit_code = 1

====
